---- MODULE Spec2Model ----
(***************************************************************************)
(* Model of pyresearch-init (src/src/pyresearch_init/init_research.py):    *)
(* one run of main(), from parse_arguments() to the next-steps report.     *)
(*                                                                         *)
(* Representation.  A text (str) is a sequence of chunks; a separator      *)
(* ("/" in a path, "\n" in a file) is always a chunk of its own, and the   *)
(* chunks between two separators of a path or of requirements.txt form at  *)
(* most one chunk.  A filesystem path is the sequence of its components,   *)
(* relative to the resolved parent directory (Path(args.location)          *)
(* .resolve()), which is the path <<>>.  The filesystem maps each existing *)
(* path to a node: a directory or a file with its content.                 *)
(***************************************************************************)
EXTENDS Integers, Sequences, FiniteSets, TLC

VARIABLES
    pc,                 \* position in main(): the call about to be made
    argv,               \* the raw command line (input, never changes)
    fs0,                \* the filesystem when the run started (never changes)
    args,               \* the global args set by main() line 655
    fs,                 \* the filesystem under the parent directory
    answer,             \* what input() returned at the overwrite prompt
    git_initialized,    \* main() local, line 691
    venv_activate_cmd,  \* main() local, line 696 (<<>> models None)
    out,                \* lines printed so far
    trace,              \* calls made so far, in order (history)
    observed,           \* what the run has seen of its environment: the
                        \* outcome of each external tool it started and the
                        \* calendar year it read
    exit_code           \* process exit status; -1 while running

vars == <<pc, argv, fs0, args, fs, answer, git_initialized, venv_activate_cmd,
          out, trace, observed, exit_code>>

\* the inputs of the run
input == <<argv, fs0>>

(***************************************************************************)
(* Bounds of the model.                                                    *)
(***************************************************************************)
MaxDeps == 2

(***************************************************************************)
(* Text helpers.                                                           *)
(***************************************************************************)
\* a join that ends every item, the last one too, with the separator
Join_Mutant(items, sep) ==
    LET F[i \in 0..Len(items)] ==
            IF i = 0 THEN <<>> ELSE F[i - 1] \o <<items[i], sep>>
    IN F[Len(items)]

RECURSIVE Join(_, _)
\* sep.join(items) for a list of one-chunk strings
Join(items, sep) ==
    IF Len(items) = 0 THEN <<>>
    ELSE IF Len(items) = 1 THEN <<items[1]>>
    ELSE <<items[1], sep>> \o Join(Tail(items), sep)

RECURSIVE Split(_, _)
\* text.split(sep): the texts between consecutive separators
Split(text, sep) ==
    IF Len(text) = 0 THEN << <<>> >>
    ELSE IF text[1] = sep THEN << <<>> >> \o Split(Tail(text), sep)
    ELSE LET rest == Split(Tail(text), sep)
         IN << <<text[1]>> \o rest[1] >> \o Tail(rest)

\* the fields of a separated text as chunks: the empty chunk for an empty
\* field, the field's chunk otherwise (a field of a path is one chunk)
Fields(text, sep) ==
    LET parts == Split(text, sep)
    IN [i \in 1..Len(parts) |-> IF parts[i] = <<>> THEN "" ELSE parts[i][1]]

\* the chunk c occurs in the text
Contains(text, c) == \E i \in 1..Len(text) : text[i] = c

\* the text t occurs in the text as a contiguous run of chunks
ContainsText(text, t) ==
    \E i \in 0..(Len(text) - Len(t)) : SubSeq(text, i + 1, i + Len(t)) = t

LowerChar(c) ==
    CASE c = "Y" -> "y" [] c = "E" -> "e" [] c = "S" -> "s"
      [] c = "N" -> "n" [] c = "O" -> "o" [] OTHER -> c

\* str.lower() on a text whose chunks are single characters
Lower(text) == [i \in 1..Len(text) |-> LowerChar(text[i])]

IsSpace(c) == c \in {" ", "\t"}

RECURSIVE LStrip(_)
LStrip(text) ==
    IF Len(text) > 0 /\ IsSpace(text[1]) THEN LStrip(Tail(text)) ELSE text

RECURSIVE RStrip(_)
RStrip(text) ==
    IF Len(text) > 0 /\ IsSpace(text[Len(text)])
    THEN RStrip(SubSeq(text, 1, Len(text) - 1)) ELSE text

\* str.strip()
Strip(text) == RStrip(LStrip(text))

(***************************************************************************)
(* Paths.                                                                  *)
(***************************************************************************)
\* pathlib / os.path: the components of a path string; empty components and
\* "." are dropped
PathParts(text) == SelectSeq(Fields(text, "/"), LAMBDA c : c # "" /\ c # ".")

RECURSIVE Normalize(_)
\* what the operating system resolves a component sequence to: ".." steps
\* back to the parent, except at the front, where it leaves the modelled root
Normalize(p) ==
    IF Len(p) = 0 THEN <<>>
    ELSE LET front == Normalize(SubSeq(p, 1, Len(p) - 1))
             last  == p[Len(p)]
         IN IF last = ".." /\ Len(front) > 0 /\ front[Len(front)] # ".."
            THEN SubSeq(front, 1, Len(front) - 1)
            ELSE Append(front, last)

IsPrefix(p, q) == Len(p) <= Len(q) /\ SubSeq(q, 1, Len(p)) = p

Parent(p) == SubSeq(p, 1, Len(p) - 1)

(***************************************************************************)
(* The filesystem: a function from the existing paths to their nodes.      *)
(***************************************************************************)
DirNode == [kind |-> "dir", content |-> <<>>]
FileNode(content) == [kind |-> "file", content |-> content]

Exists(f, p) == Normalize(p) \in DOMAIN f
IsDir(f, p) == Exists(f, p) /\ f[Normalize(p)].kind = "dir"
IsFile(f, p) == Exists(f, p) /\ f[Normalize(p)].kind = "file"

\* f with path q set to node n
Put(f, q, n) == [x \in DOMAIN f \cup {q} |-> IF x = q THEN n ELSE f[x]]

\* a deletion that removes nothing
RmTree_Mutant(f, p) == f

\* shutil.rmtree(p): p and everything below it is gone
RmTree(f, p) ==
    LET q == Normalize(p)
    IN [x \in {y \in DOMAIN f : ~IsPrefix(q, y)} |-> f[x]]

\* Filesystem operations an emitter performs, as records
MkDirs(p) == [op |-> "makedirs", path |-> p, content |-> <<>>]
Touch(p) == [op |-> "touch", path |-> p, content |-> <<>>]
WriteFile(p, content) == [op |-> "write", path |-> p, content |-> content]

\* whether the operation can succeed on filesystem f
OpOk(f, o) ==
    LET q == Normalize(o.path)
    IN IF o.op = "makedirs"
       \* os.makedirs(exist_ok=True): no component may be a file
       THEN \A i \in 0..Len(q) : ~IsFile(f, SubSeq(q, 1, i))
       \* open(path, "w") and Path.touch(): the parent must be a directory and
       \* the path itself must not be one
       ELSE /\ Len(q) > 0
            /\ IsDir(f, Parent(q))
            /\ ~IsDir(f, q)

\* the filesystem after the operation
ApplyOp(f, o) ==
    LET q == Normalize(o.path)
    IN CASE o.op = "makedirs" ->
              [x \in DOMAIN f \cup {SubSeq(q, 1, i) : i \in 0..Len(q)} |->
                  IF x \in DOMAIN f THEN f[x] ELSE DirNode]
         [] o.op = "touch" ->
              IF q \in DOMAIN f THEN f ELSE Put(f, q, FileNode(<<>>))
         [] OTHER -> Put(f, q, FileNode(o.content))

RECURSIVE ApplyOps(_, _, _)
\* the filesystem after the first k operations of ops
ApplyOps(f, ops, k) ==
    IF k = 0 THEN f ELSE ApplyOp(ApplyOps(f, ops, k - 1), ops[k])

\* the first k operations of ops all succeed
CanApply(f, ops, k) ==
    \A i \in 1..k : OpOk(ApplyOps(f, ops, i - 1), ops[i])

(***************************************************************************)
(* Fixed literals of the program.                                          *)
(***************************************************************************)
LicenseChoices == {"MIT", "Apache-2.0", "GPL-3.0", "BSD-3-Clause", "None"}

DefaultDeps == <<"numpy", "pandas", "matplotlib", "pytest">>

DefaultPythonVersion == <<">=3.8">>

\* main() lines 658-659: parent_path / args.project_name
ProjectPath(a) == PathParts(a.project_name)

\* no fallback for an empty author
AuthorOrPlaceholder_Mutant(author) == author

AuthorOrPlaceholder(author) == IF author # <<>> THEN author ELSE <<"Your Name">>

EmailOrPlaceholder(email) ==
    IF email # <<>> THEN email ELSE <<"your.email@example.com">>

\* str(datetime.now().year)
YearText(y) ==
    CASE y = 2025 -> "2025" [] y = 2026 -> "2026" [] y = 2027 -> "2027"
      [] OTHER -> "year"

(***************************************************************************)
(* The structure builder and the emitters: each is the sequence of         *)
(* filesystem operations the function performs, in order.                  *)
(***************************************************************************)
directories ==
    << <<"src">>,
       <<"src", "/">> \o args.project_name,
       <<"notebooks">>,
       <<"tests">>,
       <<"data", "/", "raw">>,
       <<"data", "/", "processed">>,
       <<"results", "/", "figures">>,
       <<"results", "/", "models">>,
       <<"docs">> >>

create_directory_structure(project_path) ==
    [i \in 1..Len(directories) |-> MkDirs(project_path \o PathParts(directories[i]))]
    \o << Touch(project_path \o <<"src">> \o PathParts(args.project_name)
                \o <<"__init__.py">>),
          Touch(project_path \o <<"tests", "__init__.py">>) >>

readme_content(a) ==
    <<"# ">> \o a.project_name \o <<"\n\n">> \o a.description
    \o <<"\n\n## Overview ... ## Setup ... cd ">> \o a.project_name
    \o <<"\n ... ## Project Structure\n\n">> \o a.project_name
    \o <<"/\n README.md ... src/\n    ">> \o a.project_name
    \o <<"/  # Main package ... ## Usage ... ## Contact\n\n">>
    \o AuthorOrPlaceholder(a.author) \o <<" - ">> \o EmailOrPlaceholder(a.email)
    \o <<"\n\n">>

create_readme(project_path, a) ==
    << WriteFile(project_path \o <<"README.md">>, readme_content(a)) >>

license_content(license_type, current_year, author_name) ==
    CASE license_type = "MIT" ->
           <<"MIT License\n\nCopyright (c) ", YearText(current_year), " ">>
           \o author_name \o <<"\n\nPermission is hereby granted ... (MIT)">>
      [] license_type = "Apache-2.0" ->
           <<"Copyright ", YearText(current_year), " ">> \o author_name
           \o <<"\n\nLicensed under the Apache License, Version 2.0 ...">>
      [] license_type = "GPL-3.0" ->
           <<"Copyright (C) ", YearText(current_year), " ">> \o author_name
           \o <<"\n\nThis program is free software ... GNU General Public License ...">>
      [] OTHER ->
           <<"Copyright ", YearText(current_year), " ">> \o author_name
           \o <<"\n\nRedistribution and use in source and binary forms ... (BSD)">>

create_license(project_path, license_type, author, current_year) ==
    IF license_type = "None" THEN <<>>
    ELSE << WriteFile(project_path \o <<"LICENSE">>,
                      license_content(license_type, current_year,
                                      AuthorOrPlaceholder(author))) >>

\* a marker list that forgets results/models
gitkeep_dirs_Mutant ==
    << <<"data", "/", "raw">>, <<"data", "/", "processed">>,
       <<"results", "/", "figures">> >>

gitkeep_dirs ==
    << <<"data", "/", "raw">>, <<"data", "/", "processed">>,
       <<"results", "/", "figures">>, <<"results", "/", "models">> >>

create_gitignore(project_path) ==
    << WriteFile(project_path \o <<".gitignore">>,
                 <<"# Byte-compiled ... # Project specific\ndata/raw/* ...">>) >>
    \o [i \in 1..Len(gitkeep_dirs) |->
          WriteFile(project_path \o PathParts(gitkeep_dirs[i]) \o <<".gitkeep">>, <<>>)]

\* a list that keeps the first dependency only
QuotedList_Mutant(deps) ==
    IF Len(deps) = 0 THEN <<>> ELSE <<"\"", deps[1], "\"">>

RECURSIVE QuotedList(_)
\* the double-quoted dependencies joined by comma-space (line 353)
QuotedList(deps) ==
    IF Len(deps) = 0 THEN <<>>
    ELSE IF Len(deps) = 1 THEN <<"\"", deps[1], "\"">>
    ELSE <<"\"", deps[1], "\"", ", ">> \o QuotedList(Tail(deps))

pyproject_content(a) ==
    <<"[build-system] ...\n\n[project]\n", "name = ", "\"">> \o a.project_name
    \o <<"\"", "\n", "version = ", "\"", "0.1.0", "\"", "\n",
         "description = ", "\"">> \o a.description
    \o <<"\"", "\nreadme = \"README.md\"\nauthors = [\n    {", "name = ", "\"">>
    \o AuthorOrPlaceholder(a.author) \o <<"\"", ", ", "email = ", "\"">>
    \o EmailOrPlaceholder(a.email)
    \o <<"\"", "}\n]\n", "requires-python = ", "\"">> \o a.python_version
    \o <<"\"", "\n", "license = {\"text\" = ", "\"", a.license, "\"",
         "}\nclassifiers = [ ... ]\n", "dependencies = [", "\n    ">>
    \o QuotedList(a.deps)
    \o <<"\n", "]", "\n\n[project.optional-dependencies]\ndev = [ ... ]\n",
         "\n[tool.setuptools]\n", "package-dir = {\"\" = \"src\"}", "\n",
         "\n[tool.black] ... [tool.isort] ... [tool.mypy] ... [tool.pytest.ini_options] ...">>

create_pyproject_toml(project_path, a) ==
    << WriteFile(project_path \o <<"pyproject.toml">>, pyproject_content(a)) >>

setup_content(a) ==
    <<"from setuptools import setup, find_packages\n\nsetup(\n    ", "name=", "\"">>
    \o a.project_name
    \o <<"\"", ",\n    ", "version=", "\"", "0.1.0", "\"", ",\n    ",
         "packages=find_packages(where=\"src\")", ",\n    ",
         "package_dir={\"\": \"src\"}", ",\n    ", "python_requires=", "\"">>
    \o a.python_version \o <<"\"", ",\n)\n">>

create_setup_py(project_path, a) ==
    << WriteFile(project_path \o <<"setup.py">>, setup_content(a)) >>

create_requirements_txt(project_path, deps) ==
    << WriteFile(project_path \o <<"requirements.txt">>, Join(deps, "\n")) >>

core_content(project_name) ==
    <<"\"\"\"\nCore functionality for the ">> \o project_name
    \o <<" project.\n\"\"\"\n\ndef hello_world(): ... return f\"", "Hello from ">>
    \o project_name \o <<"!", "\"\n">>

utils_content(project_name) ==
    <<"\"\"\"\nUtility functions for the ">> \o project_name
    \o <<" project.\n\"\"\"\n\ndef sample_utility_function(value): ... return value\n">>

test_content(project_name) ==
    <<"\"\"\"\nTest cases for ">> \o project_name
    \o <<" core functionality.\n\"\"\"\nimport pytest\n", "from ">> \o project_name
    \o <<".core import hello_world", "\n\n\ndef test_hello_world(): ... assert f\"",
         "Hello from ">>
    \o project_name \o <<"!", "\" in result\n">>

notebook_content(project_name) ==
    <<"{ \"cells\": [ {markdown: \"# ">> \o project_name
    \o <<" Research Notebook ... ## Setup\"}, {code: \"import sys ... from src.">>
    \o project_name
    \o <<" import core ... %matplotlib inline\"}, {markdown: \"## Test Your Package\"}, ",
         "{code: \"print(core.hello_world())\"}, {markdown: \"## Research Notes ...\"} ], ",
         "\"metadata\": { ... }, \"nbformat\": 4, \"nbformat_minor\": 4 }\n">>

create_sample_code(project_path, project_name) ==
    << WriteFile(project_path \o <<"src">> \o PathParts(project_name) \o <<"core.py">>,
                 core_content(project_name)),
       WriteFile(project_path \o <<"src">> \o PathParts(project_name) \o <<"utils.py">>,
                 utils_content(project_name)),
       WriteFile(project_path \o <<"tests", "test_core.py">>,
                 test_content(project_name)),
       WriteFile(project_path \o <<"notebooks", "sample_notebook.ipynb">>,
                 notebook_content(project_name)) >>

docs_readme(project_name) ==
    <<"# ">> \o project_name
    \o <<" Documentation\n\nThis directory contains documentation for the ">>
    \o project_name \o <<" project. ... ## Building Documentation ...">>

\* a docs stub written over the project's own README.md
create_readme_docs_Mutant(project_path, project_name) ==
    << WriteFile(project_path \o <<"README.md">>, docs_readme(project_name)) >>

create_readme_docs(project_path, project_name) ==
    << WriteFile(project_path \o <<"docs", "README.md">>, docs_readme(project_name)) >>

(***************************************************************************)
(* Inputs: command lines, prior contents of the project path, answers to   *)
(* the overwrite prompt, outcomes of the external observed, calendar years.   *)
(***************************************************************************)
Packages == {"numpy", "scipy"}

SuppliedDeps == UNION {[1..k -> Packages] : k \in 1..MaxDeps}

Profiles ==
    { [description |-> <<>>, author |-> <<>>, email |-> <<>>,
       python_version |-> DefaultPythonVersion],
      [description |-> <<"A study">>, author |-> <<"Ada Lovelace">>,
       email |-> <<"ada@example.org">>, python_version |-> <<">=3.10">>] }

CommandLine(has_name, name, profile, license, has_deps, deps, no_venv, no_git) ==
    [has_name |-> has_name, project_name |-> name,
     description |-> profile.description, author |-> profile.author,
     email |-> profile.email, python_version |-> profile.python_version,
     no_venv |-> no_venv, no_git |-> no_git, license |-> license,
     has_deps |-> has_deps, deps |-> deps]

PlainProfile == CHOOSE p \in Profiles : p.author = <<>>

\* project names beside the main one: a second plain name, the empty string, a
\* name with a path separator, a name with a parent-directory component
OtherNames == { <<"lab">>, <<>>, <<"a", "/", "b">>, <<"..", "/", "x">> }

\* the command lines of the model: every license kind, profile and pair of
\* skip flags with the default dependencies; every supplied dependency list,
\* profile and pair of skip flags with the default license; the other names
\* and the command lines argparse rejects, with everything else at its default
CommandLines ==
    { CommandLine(TRUE, <<"demo">>, pr, lic, FALSE, <<>>, nv, ng) :
        pr \in Profiles, lic \in LicenseChoices, nv \in BOOLEAN, ng \in BOOLEAN }
    \cup
    { CommandLine(TRUE, <<"demo">>, pr, "MIT", TRUE, d, nv, ng) :
        pr \in Profiles, d \in SuppliedDeps, nv \in BOOLEAN, ng \in BOOLEAN }
    \cup
    { CommandLine(TRUE, n, PlainProfile, "MIT", FALSE, <<>>, FALSE, FALSE) :
        n \in OtherNames }
    \cup
    { CommandLine(FALSE, <<>>, PlainProfile, "MIT", FALSE, <<>>, FALSE, FALSE),
      CommandLine(TRUE, <<"demo">>, PlainProfile, "WTFPL", FALSE, <<>>, FALSE, FALSE),
      CommandLine(TRUE, <<"demo">>, PlainProfile, "MIT", TRUE, <<>>, FALSE, FALSE) }

\* the parent directory, with one file of the user's in it
BaseTree == [x \in {<<>>, <<"notes.txt">>} |->
                IF x = <<>> THEN DirNode ELSE FileNode(<<"user notes">>)]

\* what a directory found at the project path may hold before the run
PriorContents ==
    { <<>>,
      << WriteFile(<<"README.md">>, <<"stale readme">>),
         MkDirs(<<"old_results">>),
         WriteFile(<<"old_results", "run1.csv">>, <<"1,2,3">>),
         MkDirs(<<"venv">>),
         MkDirs(<<"data", "raw">>),
         WriteFile(<<"data", "raw", "measurements.csv">>, <<"4,5,6">>),
         WriteFile(<<"LICENSE">>, <<"old license">>) >> }

\* BaseTree with a directory at path p holding the prior content
WithPrior(p, prior) ==
    LET ops == <<MkDirs(p)>> \o
               [i \in 1..Len(prior) |->
                   [prior[i] EXCEPT !.path = p \o prior[i].path]]
    IN ApplyOps(BaseTree, ops, Len(ops))

InitialTrees(name) ==
    LET p == Normalize(PathParts(name))
    IN {WithPrior(p, prior) : prior \in PriorContents}
       \cup (IF p = <<>> THEN {} ELSE {BaseTree})

Answers ==
    { <<"y", "e", "s">>, <<"Y">>, <<" ", "Y", "e", "s", " ">>,
      <<"n", "o">>, <<>>, <<"y", "e", "p">> }

Years == {2026, 2027}

GitOutcomes == {"ok", "missing", "exit_error"}
VenvOutcomes == {"ok", "fails_to_start", "exit_error"}
PipOutcomes == {"ok", "exit_error"}
OsNames == {"posix", "nt"}

\* the global args before parse_arguments() has returned
NoArgs == CommandLine(FALSE, <<>>, PlainProfile, "", FALSE, <<>>, FALSE, FALSE)

NothingObserved == [git |-> "not run", venv |-> "not run", pip |-> "not run", year |-> 0]

Init ==
    /\ pc = "parse_arguments"
    /\ argv \in CommandLines
    /\ args = NoArgs
    /\ fs \in InitialTrees(argv.project_name)
    /\ fs0 = fs
    /\ answer = <<>>
    /\ git_initialized = FALSE
    /\ venv_activate_cmd = <<>>
    /\ out = <<>>
    /\ trace = <<>>
    /\ observed = NothingObserved
    /\ exit_code = -1

(***************************************************************************)
(* main(), one action per call it makes.                                   *)
(***************************************************************************)
\* version-control init moved ahead of the license emitter
MainSequence_Mutant ==
    << "parse_arguments", "plan", "makedirs", "create_directory_structure",
       "create_readme", "create_gitignore", "create_pyproject_toml",
       "create_setup_py", "create_requirements_txt", "create_sample_code",
       "create_readme_docs", "initialize_git", "create_license",
       "create_virtual_environment", "report", "done" >>

\* the order of the calls in main()
MainSequence ==
    << "parse_arguments", "plan", "makedirs", "create_directory_structure",
       "create_readme", "create_gitignore", "create_pyproject_toml",
       "create_setup_py", "create_requirements_txt", "create_sample_code",
       "create_readme_docs", "create_license", "initialize_git",
       "create_virtual_environment", "report", "done" >>

After(label) ==
    LET i == CHOOSE j \in 1..Len(MainSequence) : MainSequence[j] = label
    IN MainSequence[i + 1]

\* an exception nobody catches: traceback, exit status 1
Crash ==
    /\ pc' = "done"
    /\ exit_code' = 1
    /\ out' = Append(out, <<"Traceback (most recent call last)">>)

\* argparse: the positional is required, --license is one of the choices,
\* --deps takes one or more values; nothing else is validated
ArgumentsAccepted(cmd) ==
    /\ cmd.has_name
    /\ cmd.license \in LicenseChoices
    /\ cmd.has_deps => Len(cmd.deps) >= 1

ParseArguments ==
    /\ pc = "parse_arguments"
    /\ trace' = Append(trace, "parse_arguments")
    /\ IF ArgumentsAccepted(argv)
       THEN /\ args' = [argv EXCEPT
                          !.deps = IF argv.has_deps THEN argv.deps ELSE DefaultDeps]
            /\ pc' = After("parse_arguments")
            /\ UNCHANGED <<out, exit_code>>
       ELSE /\ out' = Append(out, <<"usage: error">>)
            /\ exit_code' = 2
            /\ pc' = "done"
            /\ UNCHANGED args
    /\ UNCHANGED <<input, fs, answer, git_initialized, venv_activate_cmd, observed>>

\* a confirmation that takes the empty answer (just Enter) for a yes
Confirmed_Mutant(a) == Strip(Lower(a)) \in { <<"y", "e", "s">>, <<"y">>, <<>> }

\* lines 664-665: input(...).lower().strip() in ["yes", "y"]
Confirmed(a) == Strip(Lower(a)) \in { <<"y", "e", "s">>, <<"y">> }

\* lines 661-668: the existing-path check, the prompt, the deletion
PlanPath ==
    /\ pc = "plan"
    /\ LET project_path == ProjectPath(args)
       IN IF Exists(fs, project_path)
          THEN \E a \in Answers :
                 /\ answer' = a
                 /\ IF ~Confirmed(a)
                    THEN /\ out' = out \o << <<"Directory already exists.">>,
                                             <<"Aborting setup.">> >>
                         /\ exit_code' = 1
                         /\ pc' = "done"
                         /\ UNCHANGED <<fs, trace>>
                    ELSE /\ trace' = Append(trace, "rmtree")
                         /\ IF IsDir(fs, project_path)
                            THEN /\ fs' = RmTree(fs, project_path)
                                 /\ out' = Append(out, <<"Directory already exists.">>)
                                 /\ pc' = After("plan")
                                 /\ UNCHANGED exit_code
                            ELSE Crash /\ UNCHANGED fs
          ELSE /\ pc' = After("plan")
               /\ UNCHANGED <<fs, answer, out, trace, exit_code>>
    /\ UNCHANGED <<input, args, git_initialized, venv_activate_cmd, observed>>

\* a call that removes the partly built project directory when a write fails
Call_Mutant(label, ops, msg, seen) ==
    /\ pc = label
    /\ observed' = seen
    /\ trace' = Append(trace, label)
    /\ \E k \in 0..Len(ops) :
         /\ CanApply(fs, ops, k)
         /\ IF k = Len(ops)
            THEN /\ fs' = ApplyOps(fs, ops, k)
                 /\ pc' = After(label)
                 /\ out' = out \o msg
                 /\ UNCHANGED exit_code
            ELSE /\ fs' = RmTree(ApplyOps(fs, ops, k), ProjectPath(args))
                 /\ Crash
    /\ UNCHANGED <<input, args, answer, git_initialized, venv_activate_cmd>>

\* One call that performs the filesystem operations ops in order and then
\* prints msg.  Any operation may fail (permissions, disk full): the
\* operations before it stay done and the exception ends the run.
Call(label, ops, msg, seen) ==
    /\ pc = label
    /\ observed' = seen
    /\ trace' = Append(trace, label)
    /\ \E k \in 0..Len(ops) :
         /\ CanApply(fs, ops, k)
         /\ fs' = ApplyOps(fs, ops, k)
         /\ IF k = Len(ops)
            THEN /\ pc' = After(label)
                 /\ out' = out \o msg
                 /\ UNCHANGED exit_code
            ELSE Crash
    /\ UNCHANGED <<input, args, answer, git_initialized, venv_activate_cmd>>

\* lines 670-673
MakeProjectDir ==
    Call("makedirs", <<MkDirs(ProjectPath(args))>>,
         << <<"Creating Python research project: ">> \o args.project_name >>,
         observed)

CreateDirectoryStructure ==
    Call("create_directory_structure",
         create_directory_structure(ProjectPath(args)),
         << <<"Created directory structure">> >>, observed)

CreateReadme ==
    Call("create_readme", create_readme(ProjectPath(args), args),
         << <<"Created README.md">> >>, observed)

CreateGitignore ==
    Call("create_gitignore", create_gitignore(ProjectPath(args)),
         << <<"Created .gitignore and .gitkeep files">> >>, observed)

CreatePyprojectToml ==
    Call("create_pyproject_toml", create_pyproject_toml(ProjectPath(args), args),
         << <<"Created pyproject.toml">> >>, observed)

CreateSetupPy ==
    Call("create_setup_py", create_setup_py(ProjectPath(args), args),
         << <<"Created setup.py">> >>, observed)

CreateRequirementsTxt ==
    Call("create_requirements_txt",
         create_requirements_txt(ProjectPath(args), args.deps),
         << <<"Created requirements.txt with dependencies: ">>
            \o Join(args.deps, ", ") >>, observed)

CreateSampleCode ==
    Call("create_sample_code",
         create_sample_code(ProjectPath(args), args.project_name),
         << <<"Created sample code and notebook files">> >>, observed)

CreateReadmeDocs ==
    Call("create_readme_docs",
         create_readme_docs(ProjectPath(args), args.project_name), <<>>, observed)

\* lines 687-688: the license emitter is called unless the kind is None
LicenseWanted(a) == a.license # "None"

CreateLicense ==
    IF LicenseWanted(args)
    THEN \E y \in Years :
           Call("create_license",
                create_license(ProjectPath(args), args.license, args.author, y),
                << <<"Created ", args.license, " LICENSE file">> >>,
                [observed EXCEPT !.year = y])
    ELSE /\ pc = "create_license"
         /\ pc' = After("create_license")
         /\ UNCHANGED <<input, args, fs, answer, git_initialized,
                        venv_activate_cmd, out, trace, observed, exit_code>>

(***************************************************************************)
(* The external observed.  An outcome is ok, the tool exiting with an error   *)
(* (subprocess.CalledProcessError, a SubprocessError), or the tool not     *)
(* starting at all (FileNotFoundError, an OSError).                        *)
(***************************************************************************)
\* line 576: except (subprocess.SubprocessError, FileNotFoundError)
GitCaught(outcome) == outcome \in {"exit_error", "missing"}

\* line 616: except subprocess.SubprocessError
VenvCaught(outcome) == outcome \in {"exit_error"}

\* line 612: except subprocess.SubprocessError
PipCaught(outcome) == outcome \in {"exit_error"}

\* lines 588-593
ActivateCmd(os_name) ==
    IF os_name = "nt" THEN <<"venv\\Scripts\\activate">>
    ELSE <<"source venv/bin/activate">>

\* no activation command when the installation failed
VenvResult_Mutant(os_name, pip_outcome) ==
    IF pip_outcome = "ok" THEN ActivateCmd(os_name) ELSE <<>>

\* line 615: the activation command is returned whatever the installation did
VenvResult(os_name, pip_outcome) == ActivateCmd(os_name)

\* lines 690-693 and initialize_git
InitializeGit ==
    /\ pc = "initialize_git"
    /\ IF args.no_git
       THEN /\ pc' = After("initialize_git")
            /\ UNCHANGED <<fs, git_initialized, out, trace, observed, exit_code>>
       ELSE \E o \in GitOutcomes :
              /\ trace' = Append(trace, "git init")
              /\ observed' = [observed EXCEPT !.git = o]
              /\ IF o = "ok"
                 THEN /\ fs' = ApplyOp(fs, MkDirs(ProjectPath(args) \o <<".git">>))
                      /\ git_initialized' = TRUE
                      /\ out' = Append(out, <<"Initialized git repository">>)
                      /\ pc' = After("initialize_git")
                      /\ UNCHANGED exit_code
                 ELSE IF GitCaught(o)
                 THEN /\ git_initialized' = FALSE
                      /\ out' = Append(out,
                            <<"Failed to initialize git repository. Is git installed?">>)
                      /\ pc' = After("initialize_git")
                      /\ UNCHANGED <<fs, exit_code>>
                 ELSE Crash /\ UNCHANGED <<fs, git_initialized>>
    /\ UNCHANGED <<input, args, answer, venv_activate_cmd>>

\* lines 695-698 and create_virtual_environment
CreateVirtualEnvironment ==
    /\ pc = "create_virtual_environment"
    /\ IF args.no_venv
       THEN /\ pc' = After("create_virtual_environment")
            /\ UNCHANGED <<fs, venv_activate_cmd, out, trace, observed, exit_code>>
       ELSE \E o \in VenvOutcomes :
              IF o = "ok"
              THEN \E os_name \in OsNames, p \in PipOutcomes :
                     /\ fs' = ApplyOp(fs, MkDirs(ProjectPath(args) \o <<"venv">>))
                     /\ trace' = trace \o <<"venv", "pip install">>
                     /\ observed' = [observed EXCEPT !.venv = o, !.pip = p]
                     /\ IF p = "ok"
                        THEN /\ venv_activate_cmd' = VenvResult(os_name, p)
                             /\ out' = out \o
                                  << <<"Created virtual environment">>,
                                     <<"Installed dependencies in virtual environment">> >>
                             /\ pc' = After("create_virtual_environment")
                             /\ UNCHANGED exit_code
                        ELSE IF PipCaught(p)
                        THEN /\ venv_activate_cmd' = VenvResult(os_name, p)
                             /\ out' = out \o
                                  << <<"Created virtual environment">>,
                                     <<"Failed to install dependencies. You can install them manually.">> >>
                             /\ pc' = After("create_virtual_environment")
                             /\ UNCHANGED exit_code
                        ELSE Crash /\ UNCHANGED venv_activate_cmd
              ELSE /\ trace' = Append(trace, "venv")
                   /\ observed' = [observed EXCEPT !.venv = o]
                   /\ UNCHANGED fs
                   /\ IF VenvCaught(o)
                      THEN /\ venv_activate_cmd' = <<>>
                           /\ out' = Append(out, <<"Failed to create virtual environment">>)
                           /\ pc' = After("create_virtual_environment")
                           /\ UNCHANGED exit_code
                      ELSE Crash /\ UNCHANGED venv_activate_cmd
    /\ UNCHANGED <<input, args, answer, git_initialized>>

\* lines 705-722: the next-steps list
NextSteps(project_name, activate_cmd, git_ok) ==
    << <<"Next steps:">>, <<"1. cd ">> \o project_name >>
    \o (IF activate_cmd # <<>>
        THEN << <<"2. ">> \o activate_cmd,
                <<"3. Start coding!">> >>
        ELSE << <<"2. Create and activate a virtual environment">>,
                <<"3. pip install -r requirements.txt">>,
                <<"4. Start coding!">> >>)
    \o (IF git_ok
        THEN << <<"Git repository is initialized. Make your first commit with:">>,
                <<"git add .">>,
                <<"git commit -m \"Initial commit\"">> >>
        ELSE <<>>)
    \o << <<"Happy researching!">> >>

\* lines 700-722, and the return of main()
Report ==
    /\ pc = "report"
    /\ trace' = Append(trace, "report")
    /\ out' = out
              \o << <<"Project ">> \o args.project_name \o <<" successfully created">> >>
              \o NextSteps(args.project_name, venv_activate_cmd, git_initialized)
    /\ exit_code' = 0
    /\ pc' = After("report")
    /\ UNCHANGED <<input, args, fs, answer, git_initialized, venv_activate_cmd, observed>>

Next ==
    \/ ParseArguments
    \/ PlanPath
    \/ MakeProjectDir
    \/ CreateDirectoryStructure
    \/ CreateReadme
    \/ CreateGitignore
    \/ CreatePyprojectToml
    \/ CreateSetupPy
    \/ CreateRequirementsTxt
    \/ CreateSampleCode
    \/ CreateReadmeDocs
    \/ CreateLicense
    \/ InitializeGit
    \/ CreateVirtualEnvironment
    \/ Report

Spec == Init /\ [][Next]_vars

(***************************************************************************)
(* Vocabulary of the properties.                                           *)
(***************************************************************************)
\* the project directory, as the operating system resolves it
ProjectRoot == Normalize(ProjectPath(args))

Success == pc = "done" /\ exit_code = 0

Called(label) == \E i \in 1..Len(trace) : trace[i] = label

Printed(line) == \E i \in 1..Len(out) : out[i] = line

\* the overwrite prompt was shown and answered
Prompted == Printed(<<"Directory already exists.">>)

\* the part of filesystem f at and below path p, with paths relative to p
SubTree(f, p) ==
    [r \in {SubSeq(y, Len(p) + 1, Len(y)) : y \in {z \in DOMAIN f : IsPrefix(p, z)}}
        |-> f[p \o r]]

\* names of the files directly inside directory d
FilesIn(f, d) ==
    {y[Len(y)] : y \in {z \in DOMAIN f :
        Len(z) = Len(d) + 1 /\ IsPrefix(d, z) /\ f[z].kind = "file"}}

\* the directories strictly below d, relative to d
DirsBelow(f, d) ==
    {SubSeq(y, Len(d) + 1, Len(y)) : y \in {z \in DOMAIN f :
        Len(z) > Len(d) /\ IsPrefix(d, z) /\ f[z].kind = "dir"}}

\* a project name that is one plain path component
NameSafe(name) == Len(name) = 1 /\ name[1] \notin {"", "/", ".", ".."}

\* nothing has been done but parsing the command line
NothingDone ==
    /\ fs = fs0
    /\ trace = <<"parse_arguments">>
    /\ observed = NothingObserved

(***************************************************************************)
(* C1                                                                      *)
(***************************************************************************)
C1_Yes == { <<"y", "e", "s">>, <<"y">> }

\* C1 (as amended): when the project path exists and the answer to the
\* overwrite prompt, lower-cased and stripped of surrounding whitespace, is
\* neither yes nor y, the run exits with code 1 and has deleted, created,
\* written and started nothing: the filesystem is the one the run found.
C1_DeclineLeavesTreeUnchanged ==
    (Prompted /\ Strip(Lower(answer)) \notin C1_Yes)
        => (pc = "done" /\ exit_code = 1 /\ NothingDone)

\* C1 witness: an existing, populated project directory, the answer no, and
\* the run over with code 1
C1_Witness ==
    /\ Prompted
    /\ answer = <<"n", "o">>
    /\ pc = "done"
    /\ exit_code = 1
    /\ IsFile(fs, ProjectRoot \o <<"old_results", "run1.csv">>)

\* C1 as stated (for a valid project name): every answer other than yes or y,
\* compared case-insensitively only, aborts with code 1 and no mutation
C1_Original ==
    (Prompted /\ NameSafe(args.project_name) /\ Lower(answer) \notin C1_Yes)
        => (pc = "done" /\ exit_code = 1 /\ NothingDone)

(***************************************************************************)
(* C2                                                                      *)
(***************************************************************************)
\* everything a run with this configuration, this year and these tool
\* outcomes writes, in the order of main()
GenerationOps ==
    LET p == ProjectPath(args)
    IN <<MkDirs(p)>>
       \o create_directory_structure(p)
       \o create_readme(p, args)
       \o create_gitignore(p)
       \o create_pyproject_toml(p, args)
       \o create_setup_py(p, args)
       \o create_requirements_txt(p, args.deps)
       \o create_sample_code(p, args.project_name)
       \o create_readme_docs(p, args.project_name)
       \o create_license(p, args.license, args.author, observed.year)
       \o (IF observed.git = "ok" THEN <<MkDirs(p \o <<".git">>)>> ELSE <<>>)
       \o (IF observed.venv = "ok" THEN <<MkDirs(p \o <<"venv">>)>> ELSE <<>>)

\* the filesystem a from-scratch generation leaves in an empty parent directory
FromScratch ==
    ApplyOps([x \in {<<>>} |-> DirNode], GenerationOps, Len(GenerationOps))

\* C2: after an accepted overwrite and a successful run, the project tree is
\* the tree of a from-scratch generation with the same configuration,
\* whatever the path held before.
C2_OverwriteEqualsFromScratch ==
    (Success /\ Called("rmtree"))
        => SubTree(fs, ProjectRoot) = SubTree(FromScratch, ProjectRoot)

\* C2 witness: a successful run over a project directory that held stale
\* files, among them files at paths the generation writes too
C2_Witness ==
    /\ Success
    /\ Called("rmtree")
    /\ IsFile(fs0, ProjectRoot \o <<"old_results", "run1.csv">>)
    /\ IsFile(fs0, ProjectRoot \o <<"README.md">>)
    /\ observed.venv = "ok"
    /\ ~Exists(fs, ProjectRoot \o <<"old_results">>)

(***************************************************************************)
(* C3                                                                      *)
(***************************************************************************)
\* the directories of section 4.3, with the parents they lie in
C3_FixedDirs(n) ==
    { <<"src">>, <<"src", n>>, <<"notebooks">>, <<"tests">>,
      <<"data">>, <<"data", "raw">>, <<"data", "processed">>,
      <<"results">>, <<"results", "figures">>, <<"results", "models">>,
      <<"docs">> }

C3_KeepDirs ==
    { <<"data", "raw">>, <<"data", "processed">>,
      <<"results", "figures">>, <<"results", "models">> }

\* C3 (as amended): after a successful run with a valid name the project
\* directory holds every directory of section 4.3, and no other directory
\* except .git and venv, which the external tools create; each of the four
\* data and results folders holds its empty .gitkeep and nothing else; the
\* source package holds __init__.py, core.py and utils.py; tests holds
\* __init__.py and test_core.py; notebooks holds the sample notebook; docs
\* holds README.md; the two __init__.py markers are empty.
C3_StructureAfterSuccess ==
    (Success /\ NameSafe(args.project_name)) =>
        LET n == args.project_name[1]
            root == ProjectRoot
            dirs == DirsBelow(fs, root)
        IN /\ C3_FixedDirs(n) \subseteq dirs
           /\ dirs \subseteq C3_FixedDirs(n) \cup { <<".git">>, <<"venv">> }
           /\ \A d \in C3_KeepDirs :
                /\ FilesIn(fs, root \o d) = {".gitkeep"}
                /\ fs[root \o d \o <<".gitkeep">>].content = <<>>
           /\ FilesIn(fs, root \o <<"src", n>>) = {"__init__.py", "core.py", "utils.py"}
           /\ FilesIn(fs, root \o <<"tests">>) = {"__init__.py", "test_core.py"}
           /\ FilesIn(fs, root \o <<"notebooks">>) = {"sample_notebook.ipynb"}
           /\ FilesIn(fs, root \o <<"docs">>) = {"README.md"}
           /\ FilesIn(fs, root \o <<"src">>) = {}
           /\ FilesIn(fs, root \o <<"data">>) = {}
           /\ FilesIn(fs, root \o <<"results">>) = {}
           /\ fs[root \o <<"src", n, "__init__.py">>].content = <<>>
           /\ fs[root \o <<"tests", "__init__.py">>].content = <<>>

\* C3 witness: a successful run with a valid name in which both external
\* tools created their directory
C3_Witness ==
    /\ Success
    /\ NameSafe(args.project_name)
    /\ IsDir(fs, ProjectRoot \o <<"venv">>)
    /\ IsDir(fs, ProjectRoot \o <<".git">>)
    /\ IsFile(fs, ProjectRoot \o <<"src">> \o args.project_name \o <<"core.py">>)

\* C3 as stated: exactly the directories of section 4.3 and no other, each
\* holding nothing except its designated marker file
C3_Original ==
    (Success /\ NameSafe(args.project_name)) =>
        LET n == args.project_name[1]
            root == ProjectRoot
        IN /\ DirsBelow(fs, root) = C3_FixedDirs(n)
           /\ \A d \in C3_KeepDirs : FilesIn(fs, root \o d) = {".gitkeep"}
           /\ FilesIn(fs, root \o <<"src", n>>) = {"__init__.py"}
           /\ FilesIn(fs, root \o <<"tests">>) = {"__init__.py"}
           /\ FilesIn(fs, root \o <<"notebooks">>) = {}
           /\ FilesIn(fs, root \o <<"docs">>) = {}

(***************************************************************************)
(* C4                                                                      *)
(***************************************************************************)
\* C4: a run whose project name is empty or holds a path separator or a
\* parent-directory component ends at argument resolution with a non-zero
\* exit, before the overwrite prompt and before any deletion or creation.
C4_UnsafeNameRejected ==
    (pc # "parse_arguments" /\ ~NameSafe(argv.project_name))
        => (pc = "done" /\ exit_code > 0 /\ ~Prompted /\ NothingDone)

(***************************************************************************)
(* C5                                                                      *)
(***************************************************************************)
\* C5: requirements.txt as written by the run, split into its lines, is the
\* dependency list supplied on the command line, or numpy, pandas,
\* matplotlib, pytest when none was supplied: same length, same entries,
\* same order, one entry per line.
C5_RequirementsRoundTrip ==
    (Called("create_requirements_txt")
        /\ IsFile(fs, ProjectRoot \o <<"requirements.txt">>)) =>
        LET lines == Split(fs[ProjectRoot \o <<"requirements.txt">>].content, "\n")
            expected == IF argv.has_deps THEN argv.deps
                        ELSE <<"numpy", "pandas", "matplotlib", "pytest">>
        IN /\ Len(lines) = Len(expected)
           /\ \A i \in 1..Len(expected) : lines[i] = <<expected[i]>>

\* C5 witness: a supplied list with a duplicate entry has been written
C5_Witness ==
    /\ Called("create_requirements_txt")
    /\ IsFile(fs, ProjectRoot \o <<"requirements.txt">>)
    /\ argv.has_deps
    /\ Len(argv.deps) = MaxDeps
    /\ \A i \in 1..Len(argv.deps) : argv.deps[i] = "scipy"

(***************************************************************************)
(* C6                                                                      *)
(***************************************************************************)
C6_Kinds == {"MIT", "Apache-2.0", "GPL-3.0", "BSD-3-Clause"}

\* the chunk that tells the legal text of each kind from the others
C6_Signature(kind) ==
    CASE kind = "MIT" -> "\n\nPermission is hereby granted ... (MIT)"
      [] kind = "Apache-2.0" -> "\n\nLicensed under the Apache License, Version 2.0 ..."
      [] kind = "GPL-3.0" ->
           "\n\nThis program is free software ... GNU General Public License ..."
      [] kind = "BSD-3-Clause" ->
           "\n\nRedistribution and use in source and binary forms ... (BSD)"

\* C6: after a successful run LICENSE exists in the project root exactly when
\* the license kind is not None; then it is the text of that kind and of no
\* other, and holds the year the run read and the author, or Your Name when
\* the author is empty.
C6_LicenseMatchesKind ==
    Success =>
        LET path == ProjectRoot \o <<"LICENSE">>
        IN /\ IsFile(fs, path) <=> args.license # "None"
           /\ args.license # "None" =>
                 LET c == fs[path].content
                 IN /\ args.license \in C6_Kinds
                    /\ \A k \in C6_Kinds :
                          Contains(c, C6_Signature(k)) <=> k = args.license
                    /\ observed.year \in Years
                    /\ Contains(c, YearText(observed.year))
                    /\ ContainsText(c, IF args.author = <<>> THEN <<"Your Name">>
                                       ELSE args.author)

\* C6 witness: a successful GPL-3.0 run with no author given
C6_Witness ==
    /\ Success
    /\ args.license = "GPL-3.0"
    /\ args.author = <<>>
    /\ IsFile(fs, ProjectRoot \o <<"LICENSE">>)

(***************************************************************************)
(* C7                                                                      *)
(***************************************************************************)
\* C7: once an external tool has been started, whatever the tools do the run
\* ends with the report and exit code 0, and a failure of version-control
\* init does not keep a requested environment creation from being attempted.
C7_ToolFailuresNeverAbort ==
    (pc = "done" /\ (Called("git init") \/ Called("venv"))) =>
        /\ exit_code = 0
        /\ Called("report")
        /\ ~args.no_venv => Called("venv")

(***************************************************************************)
(* C8                                                                      *)
(***************************************************************************)
\* position of the first chunk c of the text at or after position from; 0 if none
C8_Find(text, c, from) ==
    IF \E i \in from..Len(text) : text[i] = c
    THEN CHOOSE i \in from..Len(text) :
            text[i] = c /\ \A j \in from..(i - 1) : text[j] # c
    ELSE 0

\* the double-quoted value that follows the key in the file
C8_QuotedAfter(text, key) ==
    LET k == C8_Find(text, key, 1)
        close == C8_Find(text, "\"", k + 2)
    IN IF k = 0 \/ k + 1 > Len(text) \/ text[k + 1] # "\"" \/ close = 0
       THEN <<"(absent)">>
       ELSE SubSeq(text, k + 2, close - 1)

\* the items of the bracketed list that follows the key in the file
C8_ListAfter(text, key) ==
    LET k == C8_Find(text, key, 1)
        close == C8_Find(text, "]", k + 1)
    IN IF k = 0 \/ close = 0 THEN <<"(absent)">>
       ELSE SelectSeq(SubSeq(text, k + 1, close - 1),
                      LAMBDA c : c \notin {"\"", ", ", "\n", "\n    "})

C8_BothWritten ==
    /\ Called("create_pyproject_toml")
    /\ Called("create_setup_py")
    /\ IsFile(fs, ProjectRoot \o <<"pyproject.toml">>)
    /\ IsFile(fs, ProjectRoot \o <<"setup.py">>)

C8_PyprojectDescribes(c) ==
    /\ C8_QuotedAfter(c, "name = ") = args.project_name
    /\ C8_QuotedAfter(c, "version = ") = <<"0.1.0">>
    /\ Contains(c, "package-dir = {\"\" = \"src\"}")
    /\ C8_QuotedAfter(c, "requires-python = ") = args.python_version
    /\ C8_ListAfter(c, "dependencies = [") = args.deps

C8_SetupDescribes(c) ==
    /\ C8_QuotedAfter(c, "name=") = args.project_name
    /\ C8_QuotedAfter(c, "version=") = <<"0.1.0">>
    /\ Contains(c, "package_dir={\"\": \"src\"}")
    /\ C8_QuotedAfter(c, "python_requires=") = args.python_version

\* C8 (as amended): pyproject.toml describes the package name, version 0.1.0,
\* the src layout, the Python version constraint and the dependency list;
\* setup.py describes the package name, version 0.1.0, the src layout and
\* the Python version constraint, and carries no dependency list.
C8_BuildFilesDescribeConfig ==
    C8_BothWritten =>
        LET py == fs[ProjectRoot \o <<"pyproject.toml">>].content
            su == fs[ProjectRoot \o <<"setup.py">>].content
        IN /\ C8_PyprojectDescribes(py)
           /\ C8_SetupDescribes(su)
           /\ ~Contains(su, "install_requires=")
           /\ \A i \in 1..Len(args.deps) :
                 Contains(su, args.deps[i]) =>
                    (Contains(args.project_name, args.deps[i])
                        \/ Contains(args.python_version, args.deps[i]))

\* C8 witness: both files written for a supplied dependency list and a
\* Python version constraint other than the default
C8_Witness ==
    /\ C8_BothWritten
    /\ argv.has_deps
    /\ args.deps = <<"scipy", "numpy">>
    /\ args.python_version = <<">=3.10">>

\* C8 as stated: both files describe the name, the version, the layout, the
\* Python version constraint and the dependency list
C8_Original ==
    C8_BothWritten =>
        LET py == fs[ProjectRoot \o <<"pyproject.toml">>].content
            su == fs[ProjectRoot \o <<"setup.py">>].content
        IN /\ C8_PyprojectDescribes(py)
           /\ C8_SetupDescribes(su)
           /\ \A i \in 1..Len(args.deps) : Contains(su, args.deps[i])

(***************************************************************************)
(* C9                                                                      *)
(***************************************************************************)
C9_ActivationShown ==
    \/ Printed(<<"2. ", "source venv/bin/activate">>)
    \/ Printed(<<"2. ", "venv\\Scripts\\activate">>)

C9_ManualStepsShown ==
    /\ Printed(<<"2. Create and activate a virtual environment">>)
    /\ Printed(<<"3. pip install -r requirements.txt">>)

C9_CommitGuidanceShown ==
    Printed(<<"Git repository is initialized. Make your first commit with:">>)

\* C9: in the report, the activation command is shown exactly when the
\* virtual environment was requested and created (also when the installation
\* into it failed), the manual steps exactly when it is not, and the
\* first-commit guidance exactly when version-control init was requested and
\* succeeded.
C9_ReportReflectsOutcomes ==
    Called("report") =>
        LET venv_ok == ~args.no_venv /\ observed.venv = "ok"
            git_ok == ~args.no_git /\ observed.git = "ok"
        IN /\ C9_ActivationShown <=> venv_ok
           /\ C9_ManualStepsShown <=> ~venv_ok
           /\ C9_CommitGuidanceShown <=> git_ok

\* C9 witness: a report after a created environment whose installation
\* failed and a version-control tool that is missing
C9_Witness ==
    /\ Called("report")
    /\ observed.venv = "ok"
    /\ observed.pip = "exit_error"
    /\ observed.git = "missing"
    /\ C9_ActivationShown

(***************************************************************************)
(* C10                                                                     *)
(***************************************************************************)
C10_Emissions ==
    { "create_readme", "create_gitignore", "create_pyproject_toml",
      "create_setup_py", "create_requirements_txt", "create_sample_code",
      "create_readme_docs", "create_license" }

C10_ToolCalls == {"git init", "venv", "pip install"}

\* the stage of section 4.6 each call belongs to, as its rank in the order
\* Resolve, Plan, Build, Emit, Initialize, Report
C10_Stage(call) ==
    CASE call = "parse_arguments" -> 1
      [] call = "rmtree" -> 2
      [] call \in {"makedirs", "create_directory_structure"} -> 3
      [] call \in C10_Emissions -> 4
      [] call \in C10_ToolCalls -> 5
      [] call = "report" -> 6

C10_Creations == {"makedirs", "create_directory_structure"} \cup C10_Emissions

\* C10: the calls of a run follow the stages in the order Resolve, Plan,
\* Build, Emit, Initialize, Report and none is made twice; the deletion comes
\* before every creation; every file lies in a directory that exists; no
\* external tool starts before every emission, the dependency manifest and
\* the license among them, has been made and its file written; dependency
\* installation is attempted only after environment creation succeeded.
C10_StagesInOrder ==
    /\ \A j \in 2..Len(trace) : \A i \in 1..(j - 1) :
          /\ C10_Stage(trace[i]) <= C10_Stage(trace[j])
          /\ trace[i] # trace[j]
          /\ ~(trace[i] \in C10_Creations /\ trace[j] = "rmtree")
          /\ ~(trace[i] \in C10_Emissions /\ trace[j] = "create_directory_structure")
          /\ ~(trace[i] \in C10_ToolCalls /\ trace[j] \in C10_Emissions)
          /\ ~(trace[i] = "pip install" /\ trace[j] = "venv")
    /\ \E root \in {ProjectRoot} :
          \A y \in DOMAIN fs :
             (Len(y) > Len(root) /\ IsPrefix(root, y) /\ pc # "parse_arguments")
                => (Parent(y) \in DOMAIN fs /\ fs[Parent(y)].kind = "dir")
    /\ (\E t \in C10_ToolCalls : Called(t)) =>
          /\ \A e \in C10_Emissions \ {"create_license"} : Called(e)
          /\ IsFile(fs, ProjectRoot \o <<"requirements.txt">>)
          /\ args.license # "None" =>
                (Called("create_license") /\ IsFile(fs, ProjectRoot \o <<"LICENSE">>))
    /\ Called("pip install") => (observed.venv = "ok" /\ Called("venv"))

\* C10 witness: a run that deleted an existing tree, emitted a license,
\* started all three tools and reported
C10_Witness ==
    /\ Called("rmtree")
    /\ Called("create_license")
    /\ Called("git init")
    /\ Called("pip install")
    /\ Called("report")

(***************************************************************************)
(* The emissions of main() lines 678-688 made in any order, each once,     *)
(* on the tree the structure builder leaves.  Here pc stays at emit, fs0   *)
(* is the tree the structure builder left, and trace lists the emissions   *)
(* made so far in the order of main(), whatever the order they were made   *)
(* in: that order is what the specification ranges over.                   *)
(***************************************************************************)
\* the emitters main() calls for configuration a, in the order it calls them
Emitters(a) ==
    << "create_readme", "create_gitignore", "create_pyproject_toml",
       "create_setup_py", "create_requirements_txt", "create_sample_code",
       "create_readme_docs" >>
    \o (IF LicenseWanted(a) THEN <<"create_license">> ELSE <<>>)

\* the filesystem operations of the call of emitter e in main()
EmitterOps(e, a, year) ==
    LET p == ProjectPath(a)
    IN CASE e = "create_readme" -> create_readme(p, a)
         [] e = "create_gitignore" -> create_gitignore(p)
         [] e = "create_pyproject_toml" -> create_pyproject_toml(p, a)
         [] e = "create_setup_py" -> create_setup_py(p, a)
         [] e = "create_requirements_txt" -> create_requirements_txt(p, a.deps)
         [] e = "create_sample_code" -> create_sample_code(p, a.project_name)
         [] e = "create_readme_docs" -> create_readme_docs(p, a.project_name)
         [] e = "create_license" -> create_license(p, a.license, a.author, year)

InitAnyOrder ==
    /\ pc = "emit"
    \* the emitters read neither --no-venv nor --no-git
    /\ argv \in {c \in CommandLines :
                   ArgumentsAccepted(c) /\ ~c.no_venv /\ ~c.no_git}
    /\ args = [argv EXCEPT !.deps = IF argv.has_deps THEN argv.deps ELSE DefaultDeps]
    /\ fs = LET p == ProjectPath(args)
                ops == <<MkDirs(p)>> \o create_directory_structure(p)
            IN ApplyOps(BaseTree, ops, Len(ops))
    /\ fs0 = fs
    /\ answer = <<>>
    /\ git_initialized = FALSE
    /\ venv_activate_cmd = <<>>
    /\ out = <<>>
    /\ trace = <<>>
    /\ observed = NothingObserved
    /\ exit_code = -1

\* any emitter not yet called is called, and succeeds
EmitInAnyOrder ==
    /\ pc = "emit"
    /\ \E i \in 1..Len(Emitters(args)) :
         LET e == Emitters(args)[i]
         IN /\ ~Called(e)
            /\ \E y \in (IF e = "create_license" THEN Years ELSE {observed.year}) :
                 LET ops == EmitterOps(e, args, y)
                 IN /\ CanApply(fs, ops, Len(ops))
                    /\ fs' = ApplyOps(fs, ops, Len(ops))
                    /\ observed' = [observed EXCEPT !.year = y]
            /\ trace' = SelectSeq(Emitters(args), LAMBDA x : x = e \/ Called(x))
    /\ UNCHANGED <<input, pc, args, answer, git_initialized, venv_activate_cmd,
                   out, exit_code>>

NextAnyOrder == EmitInAnyOrder

SpecAnyOrder == InitAnyOrder /\ [][NextAnyOrder]_vars

(***************************************************************************)
(* C11                                                                     *)
(***************************************************************************)
\* the paths the call of emitter e writes
C11_Written(e) ==
    LET ops == EmitterOps(e, args, observed.year)
    IN {Normalize(ops[i].path) : i \in 1..Len(ops)}

RECURSIVE C11_OpsOf(_)
\* the operations of the emitters of the list, one emitter after the other
C11_OpsOf(list) ==
    IF Len(list) = 0 THEN <<>>
    ELSE EmitterOps(list[1], args, observed.year) \o C11_OpsOf(Tail(list))

\* C11: the emitters write pairwise disjoint sets of files, and whatever the
\* order in which emitters have been called after the structure builder, the
\* tree is the one that calling the same emitters in the order of main()
\* gives; so once all are called the final tree is the same for every order.
C11_EmittersIndependent ==
    /\ \A i, j \in 1..Len(Emitters(args)) :
          i # j => C11_Written(Emitters(args)[i]) \cap C11_Written(Emitters(args)[j]) = {}
    /\ LET ops == C11_OpsOf(trace)
       IN fs = ApplyOps(fs0, ops, Len(ops))

\* C11 witness: the license and the docs stub, the last two emissions of
\* main(), are on disk before the README, its first
C11_Witness ==
    /\ pc = "emit"
    /\ Called("create_license")
    /\ Called("create_readme_docs")
    /\ ~Called("create_readme")
    /\ IsFile(fs, ProjectRoot \o <<"LICENSE">>)
    /\ IsFile(fs, ProjectRoot \o <<"docs", "README.md">>)
    /\ ~Exists(fs, ProjectRoot \o <<"README.md">>)

(***************************************************************************)
(* C12                                                                     *)
(***************************************************************************)
\* the run ended with an exception raised by a filesystem write of the
\* structure builder or of an emitter
C12_WriteFailed ==
    /\ pc = "done"
    /\ Printed(<<"Traceback (most recent call last)">>)
    /\ Len(trace) > 0
    /\ trace[Len(trace)] \in C10_Creations

\* the filesystem operations of one creating call of main()
C12_StepOps(label) ==
    CASE label = "makedirs" -> <<MkDirs(ProjectPath(args))>>
      [] label = "create_directory_structure" ->
            create_directory_structure(ProjectPath(args))
      [] OTHER -> EmitterOps(label, args, observed.year)

RECURSIVE C12_OpsOf(_)
C12_OpsOf(list) ==
    IF Len(list) = 0 THEN <<>>
    ELSE C12_StepOps(list[1]) \o C12_OpsOf(Tail(list))

\* C12: when a filesystem write of structure building or of an emission
\* fails, the run ends there with a nonzero exit status; no later creating
\* call, no external tool and no report is made; and the filesystem is the
\* one the run found (less the project tree, when an overwrite was accepted)
\* with every operation of the earlier calls and the operations of the
\* failing call before the failing one applied: nothing is removed and the
\* deleted tree is not put back.
C12_WriteFailureIsFatal ==
    C12_WriteFailed =>
        LET n == Len(trace)
            failing == trace[n]
            earlier == SelectSeq(SubSeq(trace, 1, n - 1),
                                 LAMBDA c : c \in C10_Creations)
            done == C12_OpsOf(earlier)
            step == C12_StepOps(failing)
            before == IF Called("rmtree")
                      THEN RmTree(fs0, ProjectPath(args)) ELSE fs0
        IN /\ exit_code = 1
           /\ out[Len(out)] = <<"Traceback (most recent call last)">>
           /\ \A i, j \in 1..Len(MainSequence) :
                 (MainSequence[i] = failing /\ j > i) => ~Called(MainSequence[j])
           /\ \A t \in C10_ToolCalls : ~Called(t)
           /\ ~Called("report")
           /\ ~git_initialized
           /\ venv_activate_cmd = <<>>
           /\ \A i \in 1..Len(out) : out[i] # <<"Happy researching!">>
           /\ \E k \in 0..(Len(step) - 1) :
                 fs = ApplyOps(before, done \o step, Len(done) + k)

\* C12 witness: after an accepted overwrite of a populated project directory
\* the sample code step failed on its second file; the new README and the
\* first sample file are on disk, the old results are gone
C12_Witness ==
    /\ C12_WriteFailed
    /\ Called("rmtree")
    /\ trace[Len(trace)] = "create_sample_code"
    /\ IsFile(fs0, ProjectRoot \o <<"old_results", "run1.csv">>)
    /\ ~Exists(fs, ProjectRoot \o <<"old_results">>)
    /\ IsFile(fs, ProjectRoot \o <<"README.md">>)
    /\ fs[ProjectRoot \o <<"README.md">>] # fs0[ProjectRoot \o <<"README.md">>]
    /\ IsFile(fs, ProjectRoot \o <<"src">> \o args.project_name \o <<"core.py">>)
    /\ ~Exists(fs, ProjectRoot \o <<"src">> \o args.project_name \o <<"utils.py">>)

====
